---- MODULE Spec2Model ----
(***************************************************************************)
(* A model of train.py: knowledge-distillation training of a student       *)
(* transformer against a teacher (train_model), the distillation loss      *)
(* (knowledge_distillation_loss) and autoregressive greedy decoding        *)
(* (greedy_decode).                                                        *)
(*                                                                         *)
(* Three specifications share the module:                                  *)
(*   Spec        one run of train_model over a checkpoint folder           *)
(*   SpecDecode  one call of greedy_decode, for an arbitrary model         *)
(*   SpecLoss    one call of knowledge_distillation_loss                   *)
(***************************************************************************)
EXTENDS Integers, Sequences, FiniteSets, TLC

VARIABLES
    \* ---- train_model ----
    pc,             \* position in train_model
    preload,        \* config['preload']: "None", "latest" or an epoch name
    num_epochs,     \* config['num_epochs']
    files,          \* the weights folder: file name -> content
    W,              \* weights of teacher_model and student_model
    mode,           \* nn.Module.training of each model: "train" / "eval"
    opt,            \* state of the Adam optimizer
    initial_epoch,
    global_step,
    model_filename,
    state,          \* the checkpoint read by torch.load (line 201)
    epoch,          \* loop variable of the epoch loop
    i,              \* number of batches of the current epoch already processed
    graph,          \* models whose forward pass of the last batch was recorded by autograd
    log,            \* history: the operations of this run, in order
    batches_done,   \* history: training batches processed by this run
    start_step,     \* history: global_step when the epoch loop was entered
    loaded_path,    \* history: the path handed to torch.load
    printed_path,   \* history: the path named in the 'Preloading model' message
    \* ---- greedy_decode ----
    dpc,            \* position in greedy_decode
    max_len,
    decoder_input,  \* the token sequence built so far
    prob,           \* the projection of the last position at the last decoder call
    calls,          \* history: number of decoder calls made
    \* ---- knowledge_distillation_loss ----
    kpc,
    kd_in,          \* the arguments of the call
    kd_out          \* the value returned

trainVars == <<pc, preload, num_epochs, files, W, mode, opt, initial_epoch,
               global_step, model_filename, state, epoch, i, graph, log,
               batches_done, start_step, loaded_path, printed_path>>
decodeVars == <<dpc, max_len, decoder_input, prob, calls>>
lossVars == <<kpc, kd_in, kd_out>>
vars == <<trainVars, decodeVars, lossVars>>

(***************************************************************************)
(* Bounds of the model.                                                    *)
(***************************************************************************)
MaxEpochs == 3      \* config['num_epochs'] ranges over 1..MaxEpochs
NumBatches == 2     \* len(train_dataloader)
MaxLen == 4         \* greedy_decode's max_len ranges over 1..MaxLen

None == "None"
Models == {"teacher", "student"}

(***************************************************************************)
(* Weights are abstract: the architecture that fixes the tensor shapes,    *)
(* the initialisation they descend from, the number of optimizer updates   *)
(* applied since, and the precision of the linear layers.                  *)
(***************************************************************************)
\* get_model: build_transformer(..., d_model=config['d_model'])
get_model == [arch |-> "full", base |-> "teacher_init", upd |-> 0, dtype |-> "fp32"]

\* get_model_distillation: build_student_transformer(..., d_model=config['d_model']//2)
get_model_distillation == [arch |-> "half", base |-> "student_init", upd |-> 0, dtype |-> "fp32"]

\* torch.optim.Adam(student_model.parameters(), ...): the parameters it steps
OptimizerParams == {"student"}

\* a freshly constructed Adam: no step taken yet
AdamInit == [steps |-> 0]

(***************************************************************************)
(* The weights folder.  A file is absent, a training checkpoint (the four  *)
(* fields of the dict torch.save writes) or a bare state dict.             *)
(***************************************************************************)
NoFile == [kind |-> "none"]

Digits == <<"0", "1", "2", "3", "4", "5", "6", "7", "8", "9">>

\* f"{epoch:02d}"
EpochName(e) == Digits[(e \div 10) + 1] \o Digits[(e % 10) + 1]

EpochNames == {EpochName(e) : e \in 0..(MaxEpochs - 1)}

\* get_weights_file_path(config, x) of config.py: the weights folder, the
\* model basename, x and the extension
get_weights_file_path(x) == "weights/tmodel_" \o x \o ".pt"

QuantizedArg == "quantized_model"

FileNames == {get_weights_file_path(x) : x \in EpochNames \cup {QuantizedArg}}

Checkpoint(e, w, o, g) ==
    [kind |-> "checkpoint", epoch |-> e, model_state_dict |-> w,
     optimizer_state_dict |-> o, global_step |-> g]

\* the epochs whose checkpoint file exists in folder f
SavedEpochs(f) == {e \in 0..(MaxEpochs - 1) : f[get_weights_file_path(EpochName(e))].kind = "checkpoint"}

Max(S) == CHOOSE x \in S : \A y \in S : y <= x

\* latest_weights_file_path(config) of config.py: the last weights file of the
\* folder, None when there is none
latest_weights_file_path(f) ==
    IF SavedEpochs(f) = {} THEN None
    ELSE get_weights_file_path(EpochName(Max(SavedEpochs(f))))

\* A folder left by an earlier training of k epochs: of the teacher (the
\* full-size model, by the teacher's own training script) or of the student
\* (an earlier, interrupted run of train_model from scratch).
PriorFolder(arch, base, k) ==
    [n \in FileNames |->
        IF \E e \in 0..(k - 1) : n = get_weights_file_path(EpochName(e))
        THEN LET e == CHOOSE e \in 0..(k - 1) : n = get_weights_file_path(EpochName(e))
             IN Checkpoint(e,
                           [arch |-> arch, base |-> base, upd |-> (e + 1) * NumBatches, dtype |-> "fp32"],
                           [steps |-> (e + 1) * NumBatches],
                           (e + 1) * NumBatches)
        ELSE NoFile]

Folders ==
    {[n \in FileNames |-> NoFile]}
    \cup {PriorFolder("full", "pretrained", k) : k \in 1..MaxEpochs}
    \cup {PriorFolder("half", "prior_student_init", k) : k \in 1..MaxEpochs}

Event(op, e) == [op |-> op, epoch |-> e]

Last(s) == s[Len(s)]

(***************************************************************************)
(* train_model                                                             *)
(***************************************************************************)
TrainInit ==
    /\ pc = "start"
    /\ preload \in {None, "latest"} \cup EpochNames
    /\ num_epochs \in 1..MaxEpochs
    /\ files \in Folders
    /\ W = [m \in Models |-> IF m = "teacher" THEN get_model ELSE get_model_distillation]
    /\ mode = [m \in Models |-> "train"]
    /\ opt = AdamInit
    /\ initial_epoch = 0
    /\ global_step = 0
    /\ model_filename = None
    /\ state = NoFile
    /\ epoch = 0
    /\ i = 0
    /\ graph = {}
    /\ log = <<>>
    /\ batches_done = 0
    /\ start_step = 0
    /\ loaded_path = None
    /\ printed_path = None

\* line 198
SelectedFile(p, f) ==
    IF p = "latest" THEN latest_weights_file_path(f)
    ELSE IF p # None THEN get_weights_file_path(p)
    ELSE None

\* line 201: the path train_model hands to torch.load
LoadPath(p, f) == latest_weights_file_path(f)

\* nn.Module.load_state_dict (strict): tensors of another shape are refused
LoadableInto(w, sd) == sd.arch = w.arch

\* lines 201-202: torch.load(path) reads a checkpoint and load_state_dict accepts it
LoadSucceeds(path, f, w) ==
    IF path = None THEN FALSE
    ELSE IF f[path].kind # "checkpoint" THEN FALSE
    ELSE LoadableInto(w, f[path].model_state_dict)

\* lines 195-207, nothing to preload
NoPreload ==
    /\ pc = "start"
    /\ SelectedFile(preload, files) = None
    /\ model_filename' = None
    /\ start_step' = global_step
    /\ epoch' = initial_epoch
    /\ pc' = "epoch_head"
    /\ UNCHANGED <<decodeVars, lossVars, preload, num_epochs, files, W, mode, opt, initial_epoch, global_step,
                   state, i, graph, log, batches_done, loaded_path, printed_path>>

\* lines 195-205, a file is selected and the load succeeds
Preload ==
    /\ pc = "start"
    /\ SelectedFile(preload, files) # None
    /\ LET path == LoadPath(preload, files) IN
        /\ LoadSucceeds(path, files, W["teacher"])
        /\ model_filename' = SelectedFile(preload, files)
        /\ printed_path' = SelectedFile(preload, files)
        /\ loaded_path' = path
        /\ state' = files[path]
        /\ W' = [W EXCEPT !["teacher"] = files[path].model_state_dict]
        /\ opt' = files[path].optimizer_state_dict
        /\ initial_epoch' = files[path].epoch + 1
        /\ global_step' = files[path].global_step
        /\ start_step' = files[path].global_step
        /\ epoch' = files[path].epoch + 1
    /\ pc' = "epoch_head"
    /\ UNCHANGED <<decodeVars, lossVars, preload, num_epochs, files, mode, i, graph, log, batches_done>>

\* lines 199-202, a file is selected and torch.load or load_state_dict raises
PreloadFails ==
    /\ pc = "start"
    /\ SelectedFile(preload, files) # None
    /\ LET path == LoadPath(preload, files) IN
        /\ ~LoadSucceeds(path, files, W["teacher"])
        /\ model_filename' = SelectedFile(preload, files)
        /\ printed_path' = SelectedFile(preload, files)
        /\ loaded_path' = path
        /\ state' = IF path # None THEN files[path] ELSE NoFile
    /\ pc' = "error"
    /\ UNCHANGED <<decodeVars, lossVars, preload, num_epochs, files, W, mode, opt, initial_epoch, global_step,
                   epoch, i, graph, log, batches_done, start_step>>

\* faulty variant: student_model.train() is not called again at the start of an epoch
EpochBeginNoTrain ==
    /\ pc = "epoch_head"
    /\ epoch < num_epochs
    /\ mode' = [mode EXCEPT !["teacher"] = "eval"]
    /\ i' = 0
    /\ pc' = "batch"
    /\ UNCHANGED <<decodeVars, lossVars, preload, num_epochs, files, W, opt, initial_epoch,
                   global_step, model_filename, state, epoch, graph, log, batches_done,
                   start_step, loaded_path, printed_path>>

\* lines 214-219: the next epoch starts
EpochBegin ==
    /\ pc = "epoch_head"
    /\ epoch < num_epochs
    /\ mode' = [mode EXCEPT !["student"] = "train", !["teacher"] = "eval"]
    /\ i' = 0
    /\ pc' = "batch"
    /\ UNCHANGED <<decodeVars, lossVars, preload, num_epochs, files, W, opt, initial_epoch, global_step,
                   model_filename, state, epoch, graph, log, batches_done, start_step,
                   loaded_path, printed_path>>

\* faulty variant: the teacher's forward pass is not wrapped in torch.no_grad()
ForwardRecordedAll(m) == TRUE

\* lines 230-237: whether autograd records the forward pass of model m
ForwardRecorded(m) == IF m = "teacher" THEN FALSE ELSE TRUE

\* optimizer.step(): one Adam update of a parameter set
Updated(w) == [w EXCEPT !.upd = w.upd + 1]

\* lines 220-251: one batch
TrainStep ==
    /\ pc = "batch"
    /\ i < NumBatches
    /\ graph' = {m \in Models : ForwardRecorded(m)}
    /\ W' = [m \in Models |->
                IF m \in OptimizerParams /\ m \in graph' THEN Updated(W[m]) ELSE W[m]]
    /\ opt' = [opt EXCEPT !.steps = opt.steps + 1]
    /\ global_step' = global_step + 1
    /\ i' = i + 1
    /\ batches_done' = batches_done + 1
    /\ log' = Append(log, Event("train", epoch))
    /\ UNCHANGED <<decodeVars, lossVars, pc, preload, num_epochs, files, mode, initial_epoch, model_filename,
                   state, epoch, start_step, loaded_path, printed_path>>

\* line 253: run_validation(student_model, ...); line 58 switches it to eval
RunValidation ==
    /\ pc = "batch"
    /\ i = NumBatches
    /\ mode' = [mode EXCEPT !["student"] = "eval"]
    /\ log' = Append(log, Event("validate_student", epoch))
    /\ pc' = "save"
    /\ UNCHANGED <<decodeVars, lossVars, preload, num_epochs, files, W, opt, initial_epoch, global_step,
                   model_filename, state, epoch, i, graph, batches_done, start_step,
                   loaded_path, printed_path>>

\* faulty variant: the checkpoint stores the teacher's weights
SaveCheckpointTeacher ==
    /\ pc = "save"
    /\ model_filename' = get_weights_file_path(EpochName(epoch))
    /\ files' = [files EXCEPT ![get_weights_file_path(EpochName(epoch))] =
                    Checkpoint(epoch, W["teacher"], opt, global_step)]
    /\ log' = Append(log, Event("save", epoch))
    /\ epoch' = epoch + 1
    /\ pc' = "epoch_head"
    /\ UNCHANGED <<decodeVars, lossVars, preload, num_epochs, W, mode, opt, initial_epoch,
                   global_step, state, i, graph, batches_done, start_step, loaded_path,
                   printed_path>>

\* lines 255-261
SaveCheckpoint ==
    /\ pc = "save"
    /\ model_filename' = get_weights_file_path(EpochName(epoch))
    /\ files' = [files EXCEPT ![get_weights_file_path(EpochName(epoch))] =
                    Checkpoint(epoch, W["student"], opt, global_step)]
    /\ log' = Append(log, Event("save", epoch))
    /\ epoch' = epoch + 1
    /\ pc' = "epoch_head"
    /\ UNCHANGED <<decodeVars, lossVars, preload, num_epochs, W, mode, opt, initial_epoch, global_step,
                   state, i, graph, batches_done, start_step, loaded_path, printed_path>>

\* lines 263-267: the loop is over; os.path.getsize(model_filename)
LoopExit ==
    /\ pc = "epoch_head"
    /\ epoch >= num_epochs
    /\ pc' = IF model_filename # None /\ files[model_filename].kind # "none"
             THEN "quantize" ELSE "error"
    /\ UNCHANGED <<decodeVars, lossVars, preload, num_epochs, files, W, mode, opt, initial_epoch, global_step,
                   model_filename, state, epoch, i, graph, log, batches_done, start_step,
                   loaded_path, printed_path>>

\* lines 270-275: torch.quantization.quantize_dynamic(student_model, {nn.Linear}, qint8)
Quantize ==
    /\ pc = "quantize"
    /\ W' = [W EXCEPT !["student"].dtype = "qint8"]
    /\ log' = Append(log, Event("quantize", epoch))
    /\ pc' = "save_quantized"
    /\ UNCHANGED <<decodeVars, lossVars, preload, num_epochs, files, mode, opt, initial_epoch, global_step,
                   model_filename, state, epoch, i, graph, batches_done, start_step,
                   loaded_path, printed_path>>

\* faulty variant: the quantized weights are saved under the last checkpoint's name
quantized_model_filename_reused(mf) == mf

\* line 278
quantized_model_filename(mf) == get_weights_file_path(QuantizedArg)

\* lines 278-284
SaveQuantized ==
    /\ pc = "save_quantized"
    /\ files' = [files EXCEPT ![quantized_model_filename(model_filename)] =
                    [kind |-> "state_dict", model_state_dict |-> W["student"]]]
    /\ log' = Append(log, Event("save_quantized", epoch))
    /\ pc' = "done"
    /\ UNCHANGED <<decodeVars, lossVars, preload, num_epochs, W, mode, opt, initial_epoch, global_step,
                   model_filename, state, epoch, i, graph, batches_done, start_step,
                   loaded_path, printed_path>>

DecodeIdle ==
    /\ dpc = "idle"
    /\ max_len = 0
    /\ decoder_input = <<>>
    /\ prob = <<>>
    /\ calls = 0

LossIdle ==
    /\ kpc = "idle"
    /\ kd_in = <<>>
    /\ kd_out = <<>>

Init == TrainInit /\ DecodeIdle /\ LossIdle

Next ==
    \/ NoPreload
    \/ Preload
    \/ PreloadFails
    \/ EpochBegin
    \/ TrainStep
    \/ RunValidation
    \/ SaveCheckpoint
    \/ LoopExit
    \/ Quantize
    \/ SaveQuantized

Spec == Init /\ [][Next]_vars

(***************************************************************************)
(* greedy_decode                                                           *)
(***************************************************************************)
VocabSize == 4      \* tokenizer_tgt.get_vocab_size(): token ids 0..VocabSize-1
Scores == {0, 1}    \* the scores a projection may assign to a token

\* the special tokens take ids in the order the trainer lists them:
\* [UNK] 0, [PAD] 1, [SOS] 2, [EOS] 3
sos_idx == 2
eos_idx == 3

Vocab == 0..(VocabSize - 1)

\* torch.max(prob, dim=1): the index of a maximal entry; which one among
\* equal maxima is left to the kernel
ArgMax(p) == {t \in DOMAIN p : \A u \in DOMAIN p : p[u] <= p[t]}

\* faulty variant: the length test lets one more token through
LengthReachedLate(n, ml) == n > ml

\* line 40
LengthReached(n, ml) == n = ml

\* faulty variant: the stop test compares with the start token
IsEosWrongToken(t) == t = sos_idx

\* line 51
IsEos(t) == t = eos_idx

\* lines 34-38
DecodeInit ==
    /\ dpc = "loop"
    /\ max_len \in 1..MaxLen
    /\ decoder_input = <<sos_idx>>
    /\ prob = <<>>
    /\ calls = 0

\* lines 40-41
DecodeBreak ==
    /\ dpc = "loop"
    /\ LengthReached(Len(decoder_input), max_len)
    /\ dpc' = "done"
    /\ UNCHANGED <<trainVars, lossVars, max_len, decoder_input, prob, calls>>

\* lines 43-52: one decoder call; the model may compute any projection
DecodeStep ==
    /\ dpc = "loop"
    /\ ~LengthReached(Len(decoder_input), max_len)
    /\ \E p \in [Vocab -> Scores] :
        \E next_word \in ArgMax(p) :
            /\ prob' = p
            /\ decoder_input' = Append(decoder_input, next_word)
            /\ dpc' = IF IsEos(next_word) THEN "done" ELSE "loop"
    /\ calls' = calls + 1
    /\ UNCHANGED <<trainVars, lossVars, max_len>>

TrainIdle ==
    /\ pc = "idle"
    /\ preload = None
    /\ num_epochs = 0
    /\ files = <<>>
    /\ W = <<>>
    /\ mode = <<>>
    /\ opt = AdamInit
    /\ initial_epoch = 0
    /\ global_step = 0
    /\ model_filename = None
    /\ state = NoFile
    /\ epoch = 0
    /\ i = 0
    /\ graph = {}
    /\ log = <<>>
    /\ batches_done = 0
    /\ start_step = 0
    /\ loaded_path = None
    /\ printed_path = None

DecodeNext ==
    \/ DecodeBreak
    \/ DecodeStep

InitDecode == TrainIdle /\ DecodeInit /\ LossIdle

\* the loop of greedy_decode runs on: a step that can be taken is taken
SpecDecode ==
    /\ InitDecode
    /\ [][DecodeNext]_vars
    /\ WF_vars(DecodeNext)

(***************************************************************************)
(* Properties of greedy_decode, checked under SpecDecode.                  *)
(***************************************************************************)
\* what C7 says of every state
C7_Bounds ==
    /\ calls <= max_len - 1
    /\ Len(decoder_input) = 1 + calls
    /\ dpc = "done" => Len(decoder_input) >= 1 /\ Len(decoder_input) <= max_len
    /\ (dpc = "done" /\ max_len = 1) => decoder_input = <<sos_idx>> /\ calls = 0

\* what C7 says of every step: the sequence changes only by a decoder call,
\* which appends one token, an argmax of the projection it computed
C7_Step ==
    /\ calls' \in {calls, calls + 1}
    /\ calls' = calls => decoder_input' = decoder_input
    /\ calls' = calls + 1 =>
        \E t \in ArgMax(prob') : decoder_input' = Append(decoder_input, t)

\* C7: greedy_decode terminates, after at most max_len - 1 decoder calls,
\* each appending exactly one token (an argmax of the projection), with a
\* result of length 1..max_len (the start token alone when max_len = 1).
C7_Terminates ==
    /\ []C7_Bounds
    /\ [][C7_Step]_vars
    /\ <>(dpc = "done")

C7_Witness ==
    /\ dpc = "done"
    /\ max_len = MaxLen
    /\ calls = MaxLen - 1
    /\ Last(decoder_input) # eos_idx

\* C8: the returned sequence starts with [SOS], holds [EOS] nowhere but
\* possibly at its end, and ends with [EOS] or has length max_len.
C8_StopsAtFirstEos ==
    dpc = "done" =>
        /\ decoder_input[1] = sos_idx
        /\ \A k \in 1..(Len(decoder_input) - 1) : decoder_input[k] # eos_idx
        /\ Last(decoder_input) = eos_idx \/ Len(decoder_input) = max_len

C8_Witness ==
    /\ dpc = "done"
    /\ Last(decoder_input) = eos_idx
    /\ Len(decoder_input) = 3
    /\ max_len = MaxLen
    /\ decoder_input[2] = sos_idx
    /\ Len(decoder_input) < max_len


(***************************************************************************)
(* knowledge_distillation_loss, in exact arithmetic.                       *)
(*                                                                         *)
(* A logit is a multiple k*ln(2) of ln 2, so that exp of it is the         *)
(* rational 2^k, a softmax is a vector of rationals, and a logarithm of a  *)
(* positive rational is a combination of logarithms of primes, which are   *)
(* linearly independent over the rationals: two losses are equal as reals  *)
(* exactly when their coefficients are equal.                              *)
(***************************************************************************)
KdRows == 2         \* rows of the flattened logits (batch * seq_len)

RECURSIVE GCD(_, _)
GCD(a, b) == IF b = 0 THEN a ELSE GCD(b, a % b)

Abs(x) == IF x < 0 THEN -x ELSE x

\* the rational n/d in lowest terms, d > 0
Rat(n, d) ==
    LET g == GCD(Abs(n), Abs(d))
        sgn == IF d < 0 THEN -1 ELSE 1
    IN [n |-> sgn * (n \div g), d |-> sgn * (d \div g)]

RAdd(a, b) == Rat(a.n * b.d + b.n * a.d, a.d * b.d)
RNeg(a) == [n |-> -a.n, d |-> a.d]
RSub(a, b) == RAdd(a, RNeg(b))
RMul(a, b) == Rat(a.n * b.n, a.d * b.d)
RDiv(a, b) == Rat(a.n * b.d, a.d * b.n)
RInt(k) == [n |-> k, d |-> 1]

RECURSIVE Pow2(_)
Pow2(k) == IF k = 0 THEN 1 ELSE 2 * Pow2(k - 1)

\* the logit values of the inputs, in units of ln 2
LogitUnits == {0, 2}
KdVocab == {1, 2}
MaxSum == Cardinality(KdVocab) * Pow2(Max(LogitUnits))

Primes == {p \in 2..MaxSum : \A q \in 2..(p - 1) : p % q # 0}

\* a real number of the form sum of c[p] * ln(p), c[p] rational
LZero == [p \in Primes |-> RInt(0)]
LAdd(u, v) == [p \in Primes |-> RAdd(u[p], v[p])]
LSub(u, v) == [p \in Primes |-> RSub(u[p], v[p])]
LScale(r, u) == [p \in Primes |-> RMul(r, u[p])]

RECURSIVE ExpOf(_, _)
ExpOf(p, n) == IF n % p = 0 THEN 1 + ExpOf(p, n \div p) ELSE 0

\* ln of a positive integer, and of a positive rational
LnInt(n) == [p \in Primes |-> RInt(ExpOf(p, n))]
Ln(r) == LSub(LnInt(r.n), LnInt(r.d))

\* r * ln 2, for a logit of r units
Logit(r) == [p \in Primes |-> IF p = 2 THEN r ELSE RInt(0)]

\* the sum of a sequence of rationals, and of a sequence of reals
RECURSIVE RSum(_)
RSum(f) == IF f = <<>> THEN RInt(0) ELSE RAdd(f[1], RSum(Tail(f)))

RECURSIVE LSum(_)
LSum(f) == IF f = <<>> THEN LZero ELSE LAdd(f[1], LSum(Tail(f)))

\* exp(r * ln 2) = 2^r, r a whole number of units
Exp(r) == RInt(Pow2(r.n))

\* x / temperature, elementwise
Scaled(x, T) == [j \in DOMAIN x |-> RDiv(x[j], RInt(T))]

\* torch.softmax(x, dim=-1) of one row
softmax(x) ==
    LET z == RSum([j \in DOMAIN x |-> Exp(x[j])])
    IN [j \in DOMAIN x |-> RDiv(Exp(x[j]), z)]

\* torch.log_softmax(x, dim=-1) of one row: x - log(sum(exp(x)))
log_softmax(x) ==
    LET z == RSum([j \in DOMAIN x |-> Exp(x[j])])
    IN [j \in DOMAIN x |-> LSub(Logit(x[j]), Ln(z))]

\* nn.KLDivLoss(reduction='batchmean')(input, target): the sum over all
\* elements of target * (log(target) - input), divided by the batch size
KLDivLoss(input, target) ==
    LScale(Rat(1, Len(input)),
           LSum([r \in DOMAIN input |->
                    LSum([j \in DOMAIN input[r] |->
                            LScale(target[r][j], LSub(Ln(target[r][j]), input[r][j]))])]))

\* nn.CrossEntropyLoss()(logits, labels): the mean over the rows of
\* -log_softmax(logits)[label]
CrossEntropyLoss(logits, labels) ==
    LScale(Rat(1, Len(logits)),
           LSum([r \in DOMAIN logits |->
                    LScale(RInt(-1), log_softmax(logits[r])[labels[r]])]))

\* faulty variant: the cross-entropy term is computed on the softened logits too
kd_loss_softened_ce(student_logits, teacher_logits, labels, temperature, alpha) ==
    LET soft == [r \in DOMAIN student_logits |-> Scaled(student_logits[r], temperature)]
        distillation_loss ==
            LScale(RInt(temperature * temperature),
                   KLDivLoss([r \in DOMAIN student_logits |-> log_softmax(soft[r])],
                             [r \in DOMAIN teacher_logits |->
                                softmax(Scaled(teacher_logits[r], temperature))]))
        ce_loss == CrossEntropyLoss(soft, labels)
    IN LAdd(LScale(alpha, ce_loss), LScale(RSub(RInt(1), alpha), distillation_loss))

\* lines 26-31
knowledge_distillation_loss(student_logits, teacher_logits, labels, temperature, alpha) ==
    LET distillation_loss ==
            LScale(RInt(temperature * temperature),
                   KLDivLoss([r \in DOMAIN student_logits |->
                                log_softmax(Scaled(student_logits[r], temperature))],
                             [r \in DOMAIN teacher_logits |->
                                softmax(Scaled(teacher_logits[r], temperature))]))
        ce_loss == CrossEntropyLoss(student_logits, labels)
    IN LAdd(LScale(alpha, ce_loss), LScale(RSub(RInt(1), alpha), distillation_loss))

\* the inputs of the call; a row of logits is taken with its least entry 0
\* (softmax and log_softmax do not change when a row is shifted)
LogitRow == {x \in [KdVocab -> {RInt(k) : k \in LogitUnits}] : \E j \in KdVocab : x[j] = RInt(0)}
Logits == [1..KdRows -> LogitRow]
Temperatures == {1, 2}
Alphas == {Rat(0, 1), Rat(7, 10), Rat(1, 1)}

InitLoss ==
    /\ TrainIdle
    /\ DecodeIdle
    /\ kpc = "call"
    /\ kd_in \in [student_logits : Logits, teacher_logits : Logits,
                  labels : [1..KdRows -> KdVocab],
                  temperature : Temperatures, alpha : Alphas]
    /\ kd_out = <<>>

KdCall ==
    /\ kpc = "call"
    /\ kd_out' = knowledge_distillation_loss(kd_in.student_logits, kd_in.teacher_logits,
                                             kd_in.labels, kd_in.temperature, kd_in.alpha)
    /\ kpc' = "returned"
    /\ UNCHANGED <<trainVars, decodeVars, kd_in>>

LossNext ==
    \/ KdCall

SpecLoss == InitLoss /\ [][LossNext]_vars

(***************************************************************************)
(* Properties of knowledge_distillation_loss, checked under SpecLoss.      *)
(***************************************************************************)
\* KL(P || Q) = sum of P[j] * ln(P[j] / Q[j])
KL(P, Q) == LSum([j \in DOMAIN P |-> LScale(P[j], Ln(RDiv(P[j], Q[j])))])

Mean(f) == LScale(Rat(1, Len(f)), LSum(f))

\* the mean over the rows of KL(softmax(t/T) || softmax(s/T))
KLTerm(s, t, T) ==
    Mean([r \in DOMAIN s |-> KL(softmax(Scaled(t[r], T)), softmax(Scaled(s[r], T)))])

\* CE(s, labels): the mean over the rows of -ln(softmax(s)[label])
CETerm(s, labels) ==
    Mean([r \in DOMAIN s |-> LScale(RInt(-1), Ln(softmax(s[r])[labels[r]]))])

\* C6: the value returned is alpha * CE(student, labels)
\* + (1 - alpha) * T^2 * KL(softmax(teacher/T) || softmax(student/T)), with the
\* temperature dividing only the logits of the KL term; with alpha = 1 it is
\* CE(student, labels), whatever the teacher's logits, and with alpha = 0 it
\* is T^2 * KL, whatever the labels.
C6_LossFormula ==
    kpc = "returned" =>
        LET s == kd_in.student_logits
            t == kd_in.teacher_logits
            T == kd_in.temperature
            a == kd_in.alpha
            ce == CETerm(s, kd_in.labels)
            kl == LScale(RInt(T * T), KLTerm(s, t, T))
        IN /\ kd_out = LAdd(LScale(a, ce), LScale(RSub(RInt(1), a), kl))
           /\ a = RInt(1) => kd_out = ce
           /\ a = RInt(0) => kd_out = kl

C6_Witness ==
    /\ kpc = "returned"
    /\ kd_in.temperature = 2
    /\ kd_in.alpha = Rat(7, 10)
    /\ kd_in.student_logits[1] # kd_in.teacher_logits[1]
    /\ kd_in.student_logits[1][1] # kd_in.student_logits[1][2]
    /\ kd_out # LZero


(***************************************************************************)
(* Properties of train_model, checked under Spec.                          *)
(***************************************************************************)
\* a step of the run that processes one training batch
IsTrainStep == batches_done' = batches_done + 1

\* the epochs this run has completed (trained, validated and saved)
Executed == initial_epoch..(epoch - 1)

LogIdx(op, e) == {j \in DOMAIN log : log[j] = Event(op, e)}

\* C1: in every training step the teacher's weights are left as they were,
\* autograd records nothing of the teacher's forward pass, and the only
\* weights the optimizer step changes are the student's (which it does change).
C1_TeacherFrozen ==
    [][IsTrainStep =>
        /\ W'["teacher"] = W["teacher"]
        /\ "teacher" \notin graph'
        /\ \A m \in Models : W'[m] # W[m] => m = "student"
        /\ W'["student"] # W["student"]]_vars

C1_Witness ==
    /\ pc = "batch"
    /\ i = NumBatches
    /\ state.kind = "checkpoint"
    /\ W["teacher"] = state.model_state_dict
    /\ W["student"].upd = NumBatches

\* C2 (as claimed): whenever a training step has used the teacher, the
\* teacher's weights are those of a checkpoint that was loaded into it.
C2_TeacherLoadedBeforeUse ==
    batches_done > 0 =>
        /\ state.kind = "checkpoint"
        /\ W["teacher"] = state.model_state_dict

\* C3 (as claimed): when the run is started from a checkpoint that
\* train_model wrote (one holding the student's weights), the epoch loop is
\* entered with the student's weights and the optimizer state equal to the
\* checkpoint's, at epoch e+1 and with the stored global_step.
C3_ResumeRestoresStudent ==
    (/\ pc \in {"epoch_head", "error"}
     /\ log = <<>>
     /\ printed_path # None
     /\ files[printed_path].kind = "checkpoint"
     /\ files[printed_path].model_state_dict.arch = get_model_distillation.arch) =>
        /\ pc = "epoch_head"
        /\ W["student"] = files[printed_path].model_state_dict
        /\ opt = files[printed_path].optimizer_state_dict
        /\ epoch = files[printed_path].epoch + 1
        /\ global_step = files[printed_path].global_step

\* C4: the checkpoint written at the end of epoch e holds epoch e, the
\* student's weights, the optimizer's state and global_step as they are at
\* that moment; global_step is then the starting global_step plus the number
\* of batches of epochs initial_epoch..e; and global_step grows by exactly 1
\* in a training step and by 0 in every other step of the loop.
C4_CheckpointContents ==
    /\ [][(pc = "save" /\ pc' # "save") =>
            /\ files'[get_weights_file_path(EpochName(epoch))]
                    = Checkpoint(epoch, W["student"], opt, global_step)
            /\ W' = W /\ opt' = opt /\ global_step' = global_step
            /\ global_step = start_step + batches_done
            /\ batches_done = (epoch - initial_epoch + 1) * NumBatches]_vars
    /\ [][pc # "start" =>
            global_step' = global_step + (IF IsTrainStep THEN 1 ELSE 0)]_vars

C4_Witness ==
    /\ pc = "epoch_head"
    /\ start_step > 0
    /\ epoch = initial_epoch + 2
    /\ files[model_filename] = Checkpoint(epoch - 1, W["student"], opt, global_step)
    /\ global_step = start_step + 2 * NumBatches

\* what C5 says of every state of a run
C5_Order ==
    /\ \A e \in 0..MaxEpochs :
        /\ Cardinality(LogIdx("save", e)) = (IF e \in Executed THEN 1 ELSE 0)
        /\ \A j \in LogIdx("save", e) : j > 1 /\ log[j - 1] = Event("validate_student", e)
    /\ \A j \in DOMAIN log :
        log[j].op = "quantize" =>
            /\ \A k \in DOMAIN log : log[k].op = "quantize" => k = j
            /\ \A k \in DOMAIN log : log[k].op = "save" => k < j
            /\ (epoch > initial_epoch => log[j].epoch = num_epochs /\ epoch = num_epochs)
    /\ (pc = "done" /\ epoch > initial_epoch) =>
            /\ epoch = num_epochs
            /\ \E j \in DOMAIN log : log[j].op = "quantize"
            /\ Last(log).op = "save_quantized"
            /\ files[get_weights_file_path(QuantizedArg)].kind = "state_dict"
            /\ files[get_weights_file_path(QuantizedArg)].model_state_dict.dtype = "qint8"

\* what C5 says of a step of the quantization pass: no checkpoint file is
\* touched, and the checkpoints hold full-precision weights
C5_QuantizationStep ==
    pc \in {"quantize", "save_quantized"} =>
        \A n \in EpochNames :
            /\ files'[get_weights_file_path(n)] = files[get_weights_file_path(n)]
            /\ (files[get_weights_file_path(n)].kind = "checkpoint"
                  => files[get_weights_file_path(n)].model_state_dict.dtype = "fp32")

\* C5: one full-precision checkpoint per executed epoch, each right after
\* that epoch's validation; one quantization, after the last checkpoint; and
\* the quantization pass writes a file of its own and leaves every
\* checkpoint file as it was.
C5_CheckpointsThenQuantization ==
    /\ []C5_Order
    /\ [][C5_QuantizationStep]_vars

C5_Witness ==
    /\ pc = "done"
    /\ epoch = initial_epoch + 2
    /\ files[get_weights_file_path(QuantizedArg)].kind = "state_dict"
    /\ files[model_filename].kind = "checkpoint"

\* C9 (as claimed): a file that is loaded is the file selected (and named in
\* the message): the latest one for preload = 'latest', the one of the named
\* epoch otherwise; with preload unset nothing is loaded and the run starts
\* at epoch 0 with global_step 0.
C9_LoadsSelectedFile ==
    pc # "start" =>
        IF preload = None
        THEN state.kind = "none" /\ loaded_path = None /\ initial_epoch = 0 /\ start_step = 0
        ELSE state.kind = "checkpoint" =>
                /\ loaded_path = printed_path
                /\ preload # "latest" => loaded_path = get_weights_file_path(preload)

\* what C10 says of the order of operations
C10_Order ==
    /\ \A e \in 0..MaxEpochs :
        Cardinality(LogIdx("validate_student", e))
            = (IF e \in Executed \/ (e = epoch /\ pc = "save") THEN 1 ELSE 0)
    /\ \A j \in DOMAIN log :
        /\ log[j].op = "validate_student" =>
            /\ j > NumBatches
            /\ \A k \in (j - NumBatches)..(j - 1) : log[k] = Event("train", log[j].epoch)
            /\ \A k \in DOMAIN log : log[k] = Event("train", log[j].epoch) => k < j
        /\ log[j].op = "save" => j > 1 /\ log[j - 1] = Event("validate_student", log[j].epoch)

\* C10: at every training step the student is in training mode and the
\* teacher in evaluation mode; run_validation runs once per epoch, on the
\* student, after all batches of the epoch and before its checkpoint.
C10_ModesAndValidation ==
    /\ [][IsTrainStep => mode["student"] = "train" /\ mode["teacher"] = "eval"]_vars
    /\ []C10_Order

C10_Witness ==
    /\ pc = "batch"
    /\ i = 1
    /\ epoch = initial_epoch + 1
    /\ mode["student"] = "train"
    /\ LogIdx("validate_student", initial_epoch) # {}

====
